---- MODULE Spec2Model ----
(***************************************************************************)
(* Model of process_report_autoamted.py: the version resolver              *)
(* (find_latest_file), the ownership map built in main(), the row          *)
(* enrichment (add_rqc_user_to_sheet) and the pivot aggregation of main(). *)
(*                                                                         *)
(* Strings are sequences of one-character strings, so that splitting,      *)
(* trimming, case folding, regex matching and int() are computed as the    *)
(* code computes them.                                                     *)
(***************************************************************************)
EXTENDS Integers, Sequences, FiniteSets, TLC

VARIABLES
    \* ---- find_latest_file ----
    rpc,                 \* position inside find_latest_file
    files_in_directory,  \* os.listdir(directory), in listing order
    file_i,              \* index of the next filename of the for loop
    latest_file,         \* local latest_file (None or a filename)
    max_number,          \* local max_number
    found_match,         \* local found_match
    resolved,            \* the value find_latest_file returned
    \* ---- main ----
    pc,                  \* position inside main()
    df_study_alloc,      \* the reference table read by pd.read_excel
    study_rqc_map,       \* the ownership map (a function on its keys)
    sht_raw_data,        \* the RawData sheet: [header, rows]
    today_date,          \* datetime.now().date(), as a proleptic ordinal
    next_sunday_date,    \* the criteria date
    pivot_table,         \* the summary table
    saved,               \* whether wb_template.save ran
    xl,                  \* the locals excel_app, wb_source, wb_template and
                         \* the calls made on the workbooks and on Excel
    pivot_sheet,         \* what was written to the Pivot_Summary sheet
    enrich_runs,         \* calls of add_rqc_user_to_sheet that returned
    raised               \* an exception reached main()'s outer handler

rvars == <<rpc, files_in_directory, file_i, latest_file, max_number,
           found_match, resolved>>

mvars == <<pc, df_study_alloc, study_rqc_map, sht_raw_data, today_date,
           next_sunday_date, pivot_table, saved>>

mvars_but_pc == <<df_study_alloc, study_rqc_map, sht_raw_data, today_date,
                  next_sunday_date, pivot_table, saved>>

xvars == <<xl, pivot_sheet, enrich_runs, raised>>

vars == <<rvars, mvars, xvars>>

\* ------------------------------------------------------------------------
\* Values and strings
\* ------------------------------------------------------------------------

\* Python's None; no string of the model equals it.
None == <<"<None>">>

\* Bound: the longest directory listing.
MaxFiles == 3

Digits == {"0", "1", "2", "3", "4", "5", "6", "7", "8", "9"}

\* The characters \s matches that occur in the model's strings.
Whitespace == {" "}

DigitVal(c) ==
    CASE c = "0" -> 0 [] c = "1" -> 1 [] c = "2" -> 2 [] c = "3" -> 3
      [] c = "4" -> 4 [] c = "5" -> 5 [] c = "6" -> 6 [] c = "7" -> 7
      [] c = "8" -> 8 [] c = "9" -> 9

\* str.lower() of one character, over the letters the model's strings use.
LowerChar(c) ==
    CASE c = "R" -> "r" [] c = "X" -> "x" [] c = "O" -> "o"
      [] c = "U" -> "u" [] c = "N" -> "n" [] c = "B" -> "b"
      [] c = "L" -> "l" [] c = "I" -> "i" [] c = "D" -> "d"
      [] c = "E" -> "e" [] c = "S" -> "s" [] c = "A" -> "a"
      [] OTHER -> c

Lower(s) == [i \in 1..Len(s) |-> LowerChar(s[i])]

\* s[a..b] (1-based, inclusive), the empty string when a > b.
Slice(s, a, b) == IF a > b THEN <<>> ELSE SubSeq(s, a, b)

\* int(number_str) on a string of decimal digits.
RECURSIVE ParseInt(_)
ParseInt(s) ==
    IF s = <<>> THEN 0
    ELSE 10 * ParseInt(Slice(s, 1, Len(s) - 1)) + DigitVal(s[Len(s)])

\* ------------------------------------------------------------------------
\* find_latest_file
\* ------------------------------------------------------------------------

\* The pattern the module resolves, shortened: base name "R", extension ".x".
BasePattern == <<"R", ".", "x">>

\* os.path.splitext: the extension starts at the last dot that has a
\* non-dot character somewhere before it.
SplitExt(p) ==
    LET dots == {i \in 1..Len(p) :
                    /\ p[i] = "."
                    /\ \E j \in 1..(i - 1) : p[j] # "."}
    IN IF dots = {}
       THEN [base_name |-> p, ext |-> <<>>]
       ELSE LET d == CHOOSE i \in dots : \A k \in dots : k <= i
            IN [base_name |-> Slice(p, 1, d - 1), ext |-> Slice(p, d, Len(p))]

\* The optional group (?:\s*\((\d+)\))? on the text between base name and
\* extension: whitespace, "(", one or more digits, ")".
GroupDigits(mid) ==
    LET opens == {i \in 1..Len(mid) : mid[i] = "("}
    IN IF opens = {} THEN None
       ELSE LET o == CHOOSE i \in opens : \A k \in opens : i <= k
            IN IF /\ \A j \in 1..(o - 1) : mid[j] \in Whitespace
                  /\ Len(mid) >= o + 2
                  /\ mid[Len(mid)] = ")"
                  /\ \A j \in (o + 1)..(Len(mid) - 1) : mid[j] \in Digits
               THEN Slice(mid, o + 1, Len(mid) - 1)
               ELSE None

\* pattern.match(filename) for
\*   ^<base_name>(?:\s*\((\d+)\))?<ext>$   with re.IGNORECASE.
\* matched: whether there is a match; number_str: group(1), None when the
\* group did not take part.
PatternMatch(base_filename_pattern, filename) ==
    LET parts == SplitExt(base_filename_pattern)
        b     == Lower(parts.base_name)
        e     == Lower(parts.ext)
        f     == Lower(filename)
        n     == Len(f)
    IN IF /\ n >= Len(b) + Len(e)
          /\ Slice(f, 1, Len(b)) = b
          /\ Slice(f, n - Len(e) + 1, n) = e
       THEN LET mid == Slice(f, Len(b) + 1, n - Len(e))
            IN IF mid = <<>>
               THEN [matched |-> TRUE, number_str |-> None]
               ELSE IF GroupDigits(mid) # None
                    THEN [matched |-> TRUE, number_str |-> GroupDigits(mid)]
                    ELSE [matched |-> FALSE, number_str |-> None]
       ELSE [matched |-> FALSE, number_str |-> None]

\* LoopBody without the "max_number == -1" guard of the elif: the bare file
\* replaces latest_file whenever it is met.
LoopBodyBareAlways(st, filename) ==
    LET m == PatternMatch(BasePattern, filename)
    IN IF ~m.matched THEN st
       ELSE IF m.number_str # None
            THEN IF ParseInt(m.number_str) > st.max_number
                 THEN [latest_file |-> filename,
                       max_number  |-> ParseInt(m.number_str),
                       found_match |-> TRUE]
                 ELSE [st EXCEPT !.found_match = TRUE]
            ELSE [st EXCEPT !.latest_file = filename, !.found_match = TRUE]

\* One iteration of "for filename in files_in_directory" on the locals
\* st = [latest_file, max_number, found_match].
LoopBody(st, filename) ==
    LET m == PatternMatch(BasePattern, filename)
    IN IF ~m.matched THEN st
       ELSE IF m.number_str # None
            THEN IF ParseInt(m.number_str) > st.max_number
                 THEN [latest_file |-> filename,
                       max_number  |-> ParseInt(m.number_str),
                       found_match |-> TRUE]
                 ELSE [st EXCEPT !.found_match = TRUE]
            ELSE IF st.max_number = -1
                 THEN [st EXCEPT !.latest_file = filename, !.found_match = TRUE]
                 ELSE [st EXCEPT !.found_match = TRUE]

\* ReturnValue without the "not found_match" branch: latest_file is returned
\* as it is, None included.
ReturnValueNoFallback(st, base_filename_pattern) == st.latest_file

\* The if / elif / else after the loop: the value returned.
ReturnValue(st, base_filename_pattern) ==
    IF ~st.found_match THEN base_filename_pattern
    ELSE IF st.latest_file # None /\ st.latest_file # <<>> THEN st.latest_file
    ELSE base_filename_pattern

\* The locals before the loop.
InitialLocals == [latest_file |-> None, max_number |-> -1, found_match |-> FALSE]

\* find_latest_file as a function of the listing (a successful os.listdir).
RECURSIVE RunLoop(_, _)
RunLoop(st, files) ==
    IF files = <<>> THEN st ELSE RunLoop(LoopBody(st, Head(files)), Tail(files))

FindLatestFile(files) == ReturnValue(RunLoop(InitialLocals, files), BasePattern)

\* Filenames a directory may hold.
FileNames ==
    { <<"R", ".", "x">>,                          \* Report.xlsx
      <<"r", ".", "X">>,                          \* report.XLSX
      <<"R", " ", "(", "2", ")", ".", "x">>,      \* Report (2).xlsx
      <<"R", "(", "2", ")", ".", "x">>,           \* Report(2).xlsx
      <<"R", " ", "(", "0", "2", ")", ".", "x">>, \* Report (02).xlsx
      <<"R", " ", "(", "1", "0", ")", ".", "x">>, \* Report (10).xlsx
      <<"R", " ", "(", "0", ")", ".", "x">>,      \* Report (0).xlsx
      <<"O", ".", "x">>,                          \* Other.xlsx
      <<"R", " ", "(", ")", ".", "x">>,           \* Report ().xlsx
      <<"R", " ", "2", ".", "x">> }               \* Report 2.xlsx

\* Directory listings: sequences of distinct filenames.
Listings ==
    UNION { { s \in [1..n -> FileNames] :
                \A i, j \in 1..n : i # j => s[i] # s[j] } : n \in 0..MaxFiles }

\* find_latest_file has been called and has not listed the directory yet.
ResolverEntered ==
    /\ rpc = "listdir"
    /\ files_in_directory = <<>>
    /\ file_i = 1
    /\ latest_file = None
    /\ max_number = -1
    /\ found_match = FALSE
    /\ resolved = None

\* files_in_directory = os.listdir(directory)
ListDir ==
    /\ rpc = "listdir"
    /\ \E l \in Listings : files_in_directory' = l
    /\ rpc' = "loop"
    /\ UNCHANGED <<file_i, latest_file, max_number, found_match, resolved>>
    /\ UNCHANGED <<mvars, xvars>>

\* os.listdir raises (FileNotFoundError or any other Exception): both
\* handlers return base_filename_pattern.
ListDirFails ==
    /\ rpc = "listdir"
    /\ resolved' = BasePattern
    /\ rpc' = "listdir_failed"
    /\ UNCHANGED <<files_in_directory, file_i, latest_file, max_number, found_match>>
    /\ UNCHANGED <<mvars, xvars>>

\* One iteration of the for loop.
LoopStep ==
    /\ rpc = "loop"
    /\ file_i <= Len(files_in_directory)
    /\ LET st == LoopBody([latest_file |-> latest_file,
                           max_number  |-> max_number,
                           found_match |-> found_match],
                          files_in_directory[file_i])
       IN /\ latest_file' = st.latest_file
          /\ max_number' = st.max_number
          /\ found_match' = st.found_match
    /\ file_i' = file_i + 1
    /\ UNCHANGED <<rpc, files_in_directory, resolved>>
    /\ UNCHANGED <<mvars, xvars>>

\* The loop is exhausted: return.
Return ==
    /\ rpc = "loop"
    /\ file_i > Len(files_in_directory)
    /\ resolved' = ReturnValue([latest_file |-> latest_file,
                                max_number  |-> max_number,
                                found_match |-> found_match], BasePattern)
    /\ rpc' = "returned"
    /\ UNCHANGED <<files_in_directory, file_i, latest_file, max_number, found_match>>
    /\ UNCHANGED <<mvars, xvars>>

\* ------------------------------------------------------------------------
\* Cells, strings of cells
\* ------------------------------------------------------------------------

\* A cell of a sheet or of a DataFrame: empty (None / NaN / NaT), a text or
\* a date (a proleptic ordinal, date.toordinal()).
Empty == [kind |-> "empty"]
Text(s) == [kind |-> "text", s |-> s]
Date(d) == [kind |-> "date", ord |-> d]

\* The sentinel owner 'NA'.
NA == <<"N", "A">>

\* Series.astype(str) / str(value): a text is itself, NaN prints as "nan".
AsTypeStr(cell) == IF cell.kind = "text" THEN cell.s ELSE <<"n", "a", "n">>

\* Series.fillna('NA').
FillNa(cell) == IF cell.kind = "empty" THEN Text(NA) ELSE cell

\* str.strip(): drop leading and trailing whitespace.
RECURSIVE Strip(_)
Strip(s) ==
    IF s = <<>> THEN s
    ELSE IF s[1] \in Whitespace THEN Strip(Tail(s))
    ELSE IF s[Len(s)] \in Whitespace THEN Strip(Slice(s, 1, Len(s) - 1))
    ELSE s

\* str.split(','): the pieces between commas (one piece when there is none).
RECURSIVE Split(_)
Split(s) ==
    LET commas == {i \in 1..Len(s) : s[i] = ","}
    IN IF commas = {} THEN <<s>>
       ELSE LET c == CHOOSE i \in commas : \A k \in commas : i <= k
            IN <<Slice(s, 1, c - 1)>> \o Split(Slice(s, c + 1, Len(s)))

\* ', '.join(list).
RECURSIVE Join(_)
Join(list) ==
    IF list = <<>> THEN <<>>
    ELSE IF Len(list) = 1 THEN list[1]
    ELSE list[1] \o <<",", " ">> \o Join(Tail(list))

\* Series.str.contains(needle, case=False) on one string.
Contains(s, needle) ==
    \E i \in 1..(Len(s) - Len(needle) + 1) :
        Lower(Slice(s, i, i + Len(needle) - 1)) = Lower(needle)

\* list.index(x) + 1, and 0 where list.index raises ValueError.
IndexOf(list, x) ==
    IF \E i \in 1..Len(list) : list[i] = x
    THEN CHOOSE i \in 1..Len(list) :
            /\ list[i] = x
            /\ \A j \in 1..(i - 1) : list[j] # x
    ELSE 0

\* ------------------------------------------------------------------------
\* main(): the ownership map
\* ------------------------------------------------------------------------

\* Bound: the rows main() reads, reference table and raw dataset together.
MaxRows == 3

S1 == <<"S", "1">>
S2 == <<"S", "2">>
Alice == <<"A">>

\* Column 0 of the reference table: keys, one with surrounding whitespace.
RefKeys == {S1, S2, <<" ", "S", "1">>}

\* Column 1: an owner, or an empty cell (NaN after read_excel).
RefOwners == {Text(Alice), Empty}

RefTables ==
    UNION { [1..n -> {<<Text(k), o>> : k \in RefKeys, o \in RefOwners}]
            : n \in 0..MaxRows }

\* ToDict keeping the first row of a key instead of the last.
RECURSIVE ToDictFirstWins(_)
ToDictFirstWins(df) ==
    IF df = <<>> THEN <<>>
    ELSE (AsTypeStr(df[1][1]) :> AsTypeStr(FillNa(df[1][2])))
            @@ ToDictFirstWins(Tail(df))

\* pd.Series(df[1].fillna('NA').astype(str).values,
\*           index=df[0].astype(str)).to_dict():
\* rows are inserted in table order, a later row replaces an earlier one
\* with the same key.
RECURSIVE ToDict(_)
ToDict(df) ==
    IF df = <<>> THEN <<>>
    ELSE LET last == df[Len(df)]
         IN (AsTypeStr(last[1]) :> AsTypeStr(FillNa(last[2])))
                @@ ToDict(Slice(df, 1, Len(df) - 1))

\* ------------------------------------------------------------------------
\* add_rqc_user_to_sheet
\* ------------------------------------------------------------------------

\* study_rqc_map.get(key, 'NA')
MapGet(map, key) == IF key \in DOMAIN map THEN map[key] ELSE NA

\* RqcUserList without the "not in rqc_user_list" test: every looked-up
\* owner is appended.
RECURSIVE RqcUserListNoDedup(_, _, _)
RqcUserListNoDedup(studies_in_cell, map, rqc_user_list) ==
    IF studies_in_cell = <<>> THEN rqc_user_list
    ELSE RqcUserListNoDedup(Tail(studies_in_cell), map,
            Append(rqc_user_list, MapGet(map, Strip(Head(studies_in_cell)))))

\* The inner loop "for study in studies_in_cell" on rqc_user_list.
RECURSIVE RqcUserList(_, _, _)
RqcUserList(studies_in_cell, map, rqc_user_list) ==
    IF studies_in_cell = <<>> THEN rqc_user_list
    ELSE LET rqc_user == MapGet(map, Strip(Head(studies_in_cell)))
         IN RqcUserList(Tail(studies_in_cell), map,
                        IF \E i \in 1..Len(rqc_user_list) : rqc_user_list[i] = rqc_user
                        THEN rqc_user_list
                        ELSE Append(rqc_user_list, rqc_user))

\* [s.strip() for s in str(study_cell_value).split(',')]
StudiesInCell(study_cell_value) ==
    LET pieces == Split(AsTypeStr(study_cell_value))
    IN [i \in 1..Len(pieces) |-> Strip(pieces[i])]

\* The value appended to rqc_users_to_write for one study cell.
RqcUserFor(study_cell_value, map) ==
    IF study_cell_value = Empty \/ study_cell_value = Text(<<>>)
    THEN NA
    ELSE LET rqc_user_list == RqcUserList(StudiesInCell(study_cell_value), map, <<>>)
         IN IF rqc_user_list # <<>> THEN Join(rqc_user_list) ELSE NA

\* sheet.range(Rows.Count, col).end('up').row: the last sheet row whose cell
\* in the column is not empty (row 1 is the header).
LastRow(sheet, col) ==
    LET filled == {i \in 1..Len(sheet.rows) : sheet.rows[i][col] # Empty}
    IN IF filled = {} THEN 1
       ELSE 1 + CHOOSE i \in filled : \A k \in filled : k <= i

\* add_rqc_user_to_sheet that never looks for an existing 'RQC User' header
\* and always adds the column after the last header.
AddRqcUserAlwaysAppend(sheet, map) ==
    LET study_col_index == IndexOf(sheet.header, "Study")
    IN IF study_col_index = 0
       THEN [raised |-> TRUE, sheet |-> sheet]
       ELSE LET last_row == LastRow(sheet, study_col_index)
            IN IF last_row < 2
               THEN [raised |-> FALSE, sheet |-> sheet]
               ELSE LET rqc_user_col_index == Len(sheet.header) + 1
                        widened == [i \in 1..Len(sheet.rows) |->
                                      Append(sheet.rows[i], Empty)]
                    IN [raised |-> FALSE,
                        sheet |->
                          [header |-> Append(sheet.header, "RQC User"),
                           rows |-> [i \in 1..Len(widened) |->
                              IF i + 1 <= last_row
                              THEN [widened[i] EXCEPT ![rqc_user_col_index] =
                                      Text(RqcUserFor(sheet.rows[i][study_col_index], map))]
                              ELSE widened[i]]]]

\* add_rqc_user_to_sheet that returns, the sheet untouched, when 'Study' is
\* not in the header.
AddRqcUserNoRaise(sheet, map) ==
    [raised |-> FALSE, sheet |-> sheet]

\* add_rqc_user_to_sheet(sheet, study_rqc_map): whether it raised, and the
\* sheet it leaves.
AddRqcUser(sheet, map) ==
    LET study_col_index == IndexOf(sheet.header, "Study")
    IN IF study_col_index = 0
       THEN [raised |-> TRUE, sheet |-> sheet]
       ELSE LET last_row == LastRow(sheet, study_col_index)
            IN IF last_row < 2
               THEN [raised |-> FALSE, sheet |-> sheet]
               ELSE LET exists == IndexOf(sheet.header, "RQC User") # 0
                        rqc_user_col_index ==
                            IF exists THEN IndexOf(sheet.header, "RQC User")
                            ELSE Len(sheet.header) + 1
                        header == IF exists THEN sheet.header
                                  ELSE Append(sheet.header, "RQC User")
                        widened == [i \in 1..Len(sheet.rows) |->
                                      IF exists THEN sheet.rows[i]
                                      ELSE Append(sheet.rows[i], Empty)]
                    IN [raised |-> FALSE,
                        sheet |->
                          [header |-> header,
                           rows |-> [i \in 1..Len(widened) |->
                              IF i + 1 <= last_row
                              THEN [widened[i] EXCEPT ![rqc_user_col_index] =
                                      Text(RqcUserFor(sheet.rows[i][study_col_index], map))]
                              ELSE widened[i]]]]

\* ------------------------------------------------------------------------
\* main(): the pivot table
\* ------------------------------------------------------------------------

\* date.weekday() of a proleptic ordinal: Monday is 0, Sunday is 6.
Weekday(ord) == (ord + 6) % 7

\* DaysUntilSunday counting to day 7 instead of weekday 6.
DaysUntilSundayOffByOne(today) == (7 - Weekday(today) + 7) % 7

\* days_until_sunday = (6 - today_date.weekday() + 7) % 7
DaysUntilSunday(today) == (6 - Weekday(today) + 7) % 7

\* next_sunday_date = today_date + timedelta(days=days_until_sunday)
NextSunday(today) == today + DaysUntilSunday(today)

\* The cell of a row under a header name; Empty when the column is absent.
CellOf(sheet, i, name) ==
    IF IndexOf(sheet.header, name) = 0 THEN Empty
    ELSE sheet.rows[i][IndexOf(sheet.header, name)]

\* The Content value of a row: '' for every row when the column is missing.
ContentOf(sheet, i) ==
    IF IndexOf(sheet.header, "Content") = 0 THEN Text(<<>>)
    ELSE CellOf(sheet, i, "Content")

\* Count_Unblinded of a row.
CountUnblinded(sheet, i) ==
    IF Contains(AsTypeStr(ContentOf(sheet, i)),
                <<"U", "n", "b", "l", "i", "n", "d", "e", "d">>)
    THEN 1 ELSE 0

\* pd.to_datetime(..., errors='coerce').dt.date of a cell: a date or NaT.
ToDate(cell) == IF cell.kind = "date" THEN cell ELSE Empty

\* Count_DueToday / Count_DueByCriteriaDate of a row against a cut-off date.
CountDueBy(sheet, i, cutoff) ==
    LET due == ToDate(CellOf(sheet, i, "Task Due Date"))
    IN IF due # Empty /\ due.ord <= cutoff THEN 1 ELSE 0

\* aggfunc='sum' of a 0/1 column over the rows of a group.
RECURSIVE SumRows(_, _)
SumRows(column, idx) ==
    IF idx = {} THEN 0
    ELSE LET i == CHOOSE k \in idx : TRUE
         IN column[i] + SumRows(column, idx \ {i})

\* OwnerOf with fillna('NA') on the owner column.
OwnerOfFillNa(sheet, i) == FillNa(CellOf(sheet, i, "RQC User"))

\* df_for_pivot['RQC User'] of a row: the owner, NaN for an empty cell.
OwnerOf(sheet, i) == CellOf(sheet, i, "RQC User")

\* The rows dropna(subset=['RQC User']) keeps.
RowsWithOwner(sheet) ==
    {i \in 1..Len(sheet.rows) : OwnerOf(sheet, i) # Empty}

\* The helper columns named in values=[...] of pd.pivot_table, as listed.
Count_UnblindedName ==
    <<"C", "o", "u", "n", "t", "_", "U", "n", "b", "l", "i", "n", "d", "e", "d">>

Count_DueTodayName ==
    <<"C", "o", "u", "n", "t", "_", "D", "u", "e", "T", "o", "d", "a", "y">>

Count_DueByCriteriaDateName ==
    <<"C", "o", "u", "n", "t", "_", "D", "u", "e", "B", "y", "C", "r", "i", "t",
      "e", "r", "i", "a", "D", "a", "t", "e">>

PivotValues ==
    <<Count_UnblindedName, Count_DueTodayName, Count_DueByCriteriaDateName>>

\* The code point of a character of a column name.
CharCode(c) ==
    CASE c = "B" -> 66 [] c = "C" -> 67 [] c = "D" -> 68 [] c = "T" -> 84
      [] c = "U" -> 85 [] c = "_" -> 95 [] c = "a" -> 97 [] c = "b" -> 98
      [] c = "d" -> 100 [] c = "e" -> 101 [] c = "i" -> 105 [] c = "l" -> 108
      [] c = "n" -> 110 [] c = "o" -> 111 [] c = "r" -> 114 [] c = "t" -> 116
      [] c = "u" -> 117 [] c = "y" -> 121

\* a < b as Python strings.
StrLess(a, b) ==
    \E k \in 1..(Len(b)) :
        /\ \A j \in 1..(k - 1) : j <= Len(a) /\ a[j] = b[j]
        /\ \/ k = Len(a) + 1
           \/ k <= Len(a) /\ CharCode(a[k]) < CharCode(b[k])

\* DataFrame.sort_index(axis=1), which pd.pivot_table applies to its result:
\* the columns in ascending order of their names.
SortIndex(names) ==
    [k \in 1..Len(names) |->
        names[CHOOSE i \in 1..Len(names) :
                Cardinality({j \in 1..Len(names) : StrLess(names[j], names[i])}) = k - 1]]

\* pivot_table.rename(columns={...}): the header of a helper column.
RenameColumn(name) ==
    CASE name = Count_UnblindedName -> "Unblinded"
      [] name = Count_DueTodayName -> "Due By Today"
      [] name = Count_DueByCriteriaDateName -> "Due By Friday"

\* The headers of a non-empty pivot table: the value columns as
\* pd.pivot_table orders them, then renamed.
PivotColumns ==
    LET sorted == SortIndex(PivotValues)
    IN [k \in 1..Len(sorted) |-> RenameColumn(sorted[k])]

\* The pivot table of the sheet: its column headers, left to right, and one
\* row of sums per owner.  pd.pivot_table orders the value columns by name
\* before they are renamed.
PivotOf(sheet, today, sunday) ==
    LET kept == RowsWithOwner(sheet)
        n == Len(sheet.rows)
        Count_Unblinded == [i \in 1..n |-> CountUnblinded(sheet, i)]
        Count_DueToday == [i \in 1..n |-> CountDueBy(sheet, i, today)]
        Count_DueByCriteriaDate == [i \in 1..n |-> CountDueBy(sheet, i, sunday)]
    IN IF kept = {}
       THEN [columns |-> <<"Unblinded", "Due By Today", "Due By Friday">>,
             data |-> <<>>]
       ELSE LET owners == {OwnerOf(sheet, i).s : i \in kept}
                group(o) == {i \in kept : OwnerOf(sheet, i).s = o}
            IN [columns |-> PivotColumns,
                data |-> [o \in owners |->
                    [Unblinded |-> SumRows(Count_Unblinded, group(o)),
                     DueByToday |-> SumRows(Count_DueToday, group(o)),
                     DueByFriday |-> SumRows(Count_DueByCriteriaDate, group(o))]]]

\* ------------------------------------------------------------------------
\* main(): inputs
\* ------------------------------------------------------------------------

\* Bound: datetime.now().date() is one of the days 1..DaySpan (day 1 is a
\* Monday), so that every weekday occurs.
DaySpan == 7

\* Bound: the one due date the raw dataset uses.
DueDay == 4

\* The headers of the data copied into RawData: complete, with one of the
\* named columns absent, and with an owner column already there.
Headers ==
    { <<"Study", "Content", "Task Due Date">>,
      <<"Content", "Task Due Date">>,
      <<"Study", "Task Due Date">>,
      <<"Study", "Content">>,
      <<"Study", "RQC User">> }

\* The cells a column of the raw dataset may hold.
CellChoices(name) ==
    CASE name = "Study" ->
            {Empty, Text(S1), Text(<<"S", "1", ",", " ", "S", "2">>)}
      [] name = "Content" ->
            {Text(<<"u", "n", "B", "L", "I", "N", "D", "E", "D">>),
             Text(<<"B", "l", "i", "n", "d", "e", "d">>)}
      [] name = "Task Due Date" -> {Empty, Date(DueDay)}
      [] name = "RQC User" -> {Empty, Text(<<"O", "l", "d">>)}

\* The data rows under a header: a row with both columns carries a due date
\* or mentions "Unblinded".
RowChoices(header) ==
    {r \in [1..Len(header) -> UNION {CellChoices(header[c]) : c \in 1..Len(header)}] :
        /\ \A c \in 1..Len(header) : r[c] \in CellChoices(header[c])
        /\ \/ IndexOf(header, "Content") = 0
           \/ IndexOf(header, "Task Due Date") = 0
           \/ r[IndexOf(header, "Task Due Date")] # Empty
           \/ Contains(r[IndexOf(header, "Content")].s,
                       <<"U", "n", "b", "l", "i", "n", "d", "e", "d">>)}

\* The used range of the source sheet with at most n data rows; its last row
\* is not entirely empty.
SheetsUpTo(n) ==
    UNION { { [header |-> h, rows |-> rows] :
                rows \in {rs \in [1..m -> RowChoices(h)] :
                            m > 0 => \E c \in 1..Len(h) : rs[m][c] # Empty} }
            : h \in Headers, m \in 0..n }

\* ------------------------------------------------------------------------
\* main(): steps
\* ------------------------------------------------------------------------

\* main() has been entered; nothing is read yet.
MainEntered ==
    /\ pc = "start"
    /\ df_study_alloc = <<>>
    /\ study_rqc_map = <<>>
    /\ sht_raw_data = [header |-> <<>>, rows |-> <<>>]
    /\ today_date = None
    /\ next_sunday_date = None
    /\ pivot_table = None
    /\ saved = FALSE
    /\ xl = [excel_app |-> "None", wb_source |-> "None", wb_template |-> "None",
             source_opened |-> FALSE, template_opened |-> FALSE,
             source_closes |-> 0, template_closes |-> 0, quits |-> 0]
    /\ pivot_sheet = "none"
    /\ enrich_runs = 0
    /\ raised = FALSE

\* excel_app = xw.App(visible=False), then step 1:
\* df_study_alloc = pd.read_excel(..., header=None, usecols=[0, 1])
LoadStudyAlloc ==
    /\ pc = "start"
    /\ \E df \in RefTables : df_study_alloc' = df
    /\ xl' = [xl EXCEPT !.excel_app = "app"]
    /\ pc' = "alloc_loaded"
    /\ UNCHANGED <<study_rqc_map, sht_raw_data, today_date, next_sunday_date,
                   pivot_table, saved>>
    /\ UNCHANGED <<pivot_sheet, enrich_runs, raised>>
    /\ UNCHANGED rvars

\* Step 1: study_rqc_map = pd.Series(...).to_dict()
BuildMap ==
    /\ pc = "alloc_loaded"
    /\ study_rqc_map' = ToDict(df_study_alloc)
    /\ pc' = "mapped"
    /\ UNCHANGED <<df_study_alloc, sht_raw_data, today_date, next_sunday_date,
                   pivot_table, saved>>
    /\ UNCHANGED xvars
    /\ UNCHANGED rvars

\* The finally block: wb_source.close() and wb_template.close() for each
\* local that is not None, then excel_app.quit() when Excel is invisible
\* with no book left.  After an early return Excel has already quit and
\* reading excel_app.visible either raises (again = 0: no second quit) or
\* answers (again = 1).
Finally(x, again) ==
    [x EXCEPT
       !.source_closes = IF x.wb_source # "None" THEN @ + 1 ELSE @,
       !.template_closes = IF x.wb_template # "None" THEN @ + 1 ELSE @,
       !.quits = IF x.excel_app # "None" THEN @ + again ELSE @]

\* What the quit of the finally block can add to the quits issued.
QuitOutcomes(x) == IF x.quits > 0 THEN {0, 1} ELSE {1}

\* Step 2, 'Sheet0' is not in the source workbook: the handler closes the
\* workbook, quits Excel and returns, leaving wb_source set; the finally
\* block runs on the way out.
Sheet0Missing ==
    /\ pc = "mapped"
    /\ LET returned == [xl EXCEPT !.wb_source = "book", !.source_opened = TRUE,
                                  !.source_closes = @ + 1, !.quits = @ + 1]
       IN \E again \in QuitOutcomes(returned) : xl' = Finally(returned, again)
    /\ pc' = "finished"
    /\ UNCHANGED mvars_but_pc
    /\ UNCHANGED <<pivot_sheet, enrich_runs, raised>>
    /\ UNCHANGED rvars

\* Step 2, 'RawData' is not in the template: the handler closes both
\* workbooks, quits Excel and returns, leaving both locals set.
RawDataMissing ==
    /\ pc = "mapped"
    /\ LET returned == [xl EXCEPT !.wb_source = "book", !.source_opened = TRUE,
                                  !.wb_template = "book", !.template_opened = TRUE,
                                  !.source_closes = @ + 1, !.template_closes = @ + 1,
                                  !.quits = @ + 1]
       IN \E again \in QuitOutcomes(returned) : xl' = Finally(returned, again)
    /\ pc' = "finished"
    /\ UNCHANGED mvars_but_pc
    /\ UNCHANGED <<pivot_sheet, enrich_runs, raised>>
    /\ UNCHANGED rvars

\* Steps 2 and 3: both workbooks are opened, sht_raw_data.clear(), the used
\* range of the source sheet is copied to RawData!A1, then wb_source.close()
\* and wb_source = None.
CopyData ==
    /\ pc = "mapped"
    /\ \E sh \in SheetsUpTo(MaxRows - Len(df_study_alloc)) : sht_raw_data' = sh
    /\ xl' = [xl EXCEPT !.source_opened = TRUE, !.source_closes = @ + 1,
                        !.wb_source = "None",
                        !.wb_template = "book", !.template_opened = TRUE]
    /\ pc' = "copied"
    /\ UNCHANGED <<df_study_alloc, study_rqc_map, today_date, next_sunday_date,
                   pivot_table, saved>>
    /\ UNCHANGED <<pivot_sheet, enrich_runs, raised>>
    /\ UNCHANGED rvars

\* Step 4: add_rqc_user_to_sheet(sht_raw_data, study_rqc_map) returns.
AddRqcUserToSheet ==
    /\ pc = "copied"
    /\ ~AddRqcUser(sht_raw_data, study_rqc_map).raised
    /\ sht_raw_data' = AddRqcUser(sht_raw_data, study_rqc_map).sheet
    /\ enrich_runs' = enrich_runs + 1
    /\ pc' = "enriched"
    /\ UNCHANGED <<df_study_alloc, study_rqc_map, today_date, next_sunday_date,
                   pivot_table, saved>>
    /\ UNCHANGED <<xl, pivot_sheet, raised>>
    /\ UNCHANGED rvars

\* Step 4: add_rqc_user_to_sheet raises ValueError ('Study' is not in the
\* header); main()'s outer handler takes it and nothing is saved.
AddRqcUserRaises ==
    /\ pc = "copied"
    /\ AddRqcUser(sht_raw_data, study_rqc_map).raised
    /\ raised' = TRUE
    /\ \E again \in QuitOutcomes(xl) : xl' = Finally(xl, again)
    /\ pc' = "finished"
    /\ UNCHANGED <<df_study_alloc, study_rqc_map, sht_raw_data, today_date,
                   next_sunday_date, pivot_table, saved>>
    /\ UNCHANGED <<pivot_sheet, enrich_runs>>
    /\ UNCHANGED rvars

\* Step 6: the VBA macro raises; the handler re-raises and main()'s outer
\* handler takes it.
MacroRaises ==
    /\ pc = "enriched"
    /\ raised' = TRUE
    /\ \E again \in QuitOutcomes(xl) : xl' = Finally(xl, again)
    /\ pc' = "finished"
    /\ UNCHANGED mvars_but_pc
    /\ UNCHANGED <<pivot_sheet, enrich_runs>>
    /\ UNCHANGED rvars

\* Whether step 7 raises ValueError for a missing column.
PivotColumnMissing(sheet) ==
    \/ IndexOf(sheet.header, "RQC User") = 0
    \/ IndexOf(sheet.header, "Task Due Date") = 0

\* Step 6 returned.  Step 7: the pivot table is computed from the RawData
\* sheet and written to Pivot_Summary, the placeholder text when it is empty.
CreatePivot ==
    /\ pc = "enriched"
    /\ ~PivotColumnMissing(sht_raw_data)
    /\ \E t \in 1..DaySpan :
          /\ today_date' = t
          /\ next_sunday_date' = NextSunday(t)
          /\ pivot_table' = PivotOf(sht_raw_data, t, NextSunday(t))
    /\ pivot_sheet' = IF RowsWithOwner(sht_raw_data) # {} THEN "table" ELSE "message"
    /\ pc' = "pivot_done"
    /\ UNCHANGED <<df_study_alloc, study_rqc_map, sht_raw_data, saved>>
    /\ UNCHANGED <<xl, enrich_runs, raised>>
    /\ UNCHANGED rvars

\* Step 6 returned.  Step 7 raises ValueError for a missing column; the
\* handler of step 7 takes it and main() goes on to save.
PivotFails ==
    /\ pc = "enriched"
    /\ PivotColumnMissing(sht_raw_data)
    /\ pc' = "pivot_failed"
    /\ UNCHANGED <<df_study_alloc, study_rqc_map, sht_raw_data, today_date,
                   next_sunday_date, pivot_table, saved>>
    /\ UNCHANGED xvars
    /\ UNCHANGED rvars

\* Step 8: wb_template.save(output_path)
Save ==
    /\ pc \in {"pivot_done", "pivot_failed"}
    /\ saved' = TRUE
    /\ \E again \in QuitOutcomes(xl) : xl' = Finally(xl, again)
    /\ pc' = "finished"
    /\ UNCHANGED <<df_study_alloc, study_rqc_map, sht_raw_data, today_date,
                   next_sunday_date, pivot_table>>
    /\ UNCHANGED <<pivot_sheet, enrich_runs, raised>>
    /\ UNCHANGED rvars

\* Bound: the calls of add_rqc_user_to_sheet on one sheet.
MaxRuns == 3

\* add_rqc_user_to_sheet is called again on the sheet it has enriched.
EnrichAgain ==
    /\ pc = "enriched"
    /\ enrich_runs < MaxRuns
    /\ ~AddRqcUser(sht_raw_data, study_rqc_map).raised
    /\ sht_raw_data' = AddRqcUser(sht_raw_data, study_rqc_map).sheet
    /\ enrich_runs' = enrich_runs + 1
    /\ UNCHANGED <<pc, df_study_alloc, study_rqc_map, today_date, next_sunday_date,
                   pivot_table, saved>>
    /\ UNCHANGED <<xl, pivot_sheet, raised>>
    /\ UNCHANGED rvars

\* ------------------------------------------------------------------------
\* Specifications
\* ------------------------------------------------------------------------

\* A call of find_latest_file.
InitResolver == ResolverEntered /\ MainEntered

NextResolver == ListDir \/ ListDirFails \/ LoopStep \/ Return

SpecResolver == InitResolver /\ [][NextResolver]_vars

\* A run of main().
Init == ResolverEntered /\ MainEntered

Next ==
    \/ LoadStudyAlloc
    \/ BuildMap
    \/ Sheet0Missing
    \/ RawDataMissing
    \/ CopyData
    \/ AddRqcUserToSheet
    \/ AddRqcUserRaises
    \/ MacroRaises
    \/ CreatePivot
    \/ PivotFails
    \/ Save

Spec == Init /\ [][Next]_vars

\* Calls of add_rqc_user_to_sheet, repeated on the sheet they enriched.
InitEnrich == ResolverEntered /\ MainEntered

NextEnrich ==
    \/ LoadStudyAlloc
    \/ BuildMap
    \/ CopyData
    \/ AddRqcUserToSheet
    \/ AddRqcUserRaises
    \/ EnrichAgain

SpecEnrich == InitEnrich /\ [][NextEnrich]_vars

\* ------------------------------------------------------------------------
\* Properties of find_latest_file
\* ------------------------------------------------------------------------

\* The filenames of the listing the pattern matches, and those among them
\* that carry a parenthesized number.
MatchingFiles ==
    {files_in_directory[i] : i \in
        {k \in 1..Len(files_in_directory) :
            PatternMatch(BasePattern, files_in_directory[k]).matched}}

NumberedFiles ==
    {f \in MatchingFiles : PatternMatch(BasePattern, f).number_str # None}

NumberOf(f) == ParseInt(PatternMatch(BasePattern, f).number_str)

Report2 == <<"R", " ", "(", "2", ")", ".", "x">>
Report10 == <<"R", " ", "(", "1", "0", ")", ".", "x">>

\* C1: when some filename of the listing matches, find_latest_file returns a
\* matching filename; if a numbered match exists the returned file is
\* numbered and no match has a greater number (as integers); the bare file is
\* returned only if no numbered match exists.
C1_HighestNumberWins ==
    (rpc = "returned" /\ MatchingFiles # {}) =>
        /\ resolved \in MatchingFiles
        /\ NumberedFiles # {} =>
              /\ resolved \in NumberedFiles
              /\ \A g \in NumberedFiles : NumberOf(resolved) >= NumberOf(g)
        /\ resolved \notin NumberedFiles => NumberedFiles = {}

\* C1 witness: "R.x", "R (2).x" and "R (10).x" are listed, (10) before the
\* others, and "R (10).x" is returned.
C1_Witness ==
    /\ rpc = "returned"
    /\ Len(files_in_directory) = 3
    /\ files_in_directory[1] = Report10
    /\ {BasePattern, Report2, Report10} \subseteq MatchingFiles
    /\ resolved = Report10

\* C2 (as claimed): every ordering of the same set of filenames gives the
\* value this call returned.
C2_OrderIndependent ==
    rpc = "returned" =>
        \A p \in Listings :
            ( /\ Len(p) = Len(files_in_directory)
              /\ {p[i] : i \in 1..Len(p)} =
                 {files_in_directory[i] : i \in 1..Len(files_in_directory)} )
            => FindLatestFile(p) = resolved

\* C3: when no filename of the listing matches, and when the directory
\* cannot be listed, find_latest_file returns base_filename_pattern itself;
\* the call has no position at which an error leaves it.
C3_NoMatchReturnsPattern ==
    /\ (rpc = "returned" /\ MatchingFiles = {}) => resolved = BasePattern
    /\ rpc = "listdir_failed" => resolved = BasePattern
    /\ rpc \in {"listdir", "loop", "returned", "listdir_failed"}
    /\ rpc \in {"listdir", "loop"} => resolved = None

\* C3 witness: a listing of two files, none matching, returned the pattern.
C3_Witness ==
    /\ rpc = "returned"
    /\ Len(files_in_directory) = 2
    /\ MatchingFiles = {}
    /\ resolved = BasePattern

\* ------------------------------------------------------------------------
\* Properties of main() and add_rqc_user_to_sheet
\* ------------------------------------------------------------------------

DataRows == 1..Len(sht_raw_data.rows)

StudyCell(i) == CellOf(sht_raw_data, i, "Study")

OwnerCell(i) == CellOf(sht_raw_data, i, "RQC User")

S1S2 == <<"S", "1", ",", " ", "S", "2">>

\* The map is built.
MapBuilt == pc \notin {"start", "alloc_loaded"}

\* C4 (as claimed): once add_rqc_user_to_sheet has returned, every data row
\* has an owner in "RQC User", and a row with an empty "Study" cell has the
\* owner "NA".
C4_EveryRowHasOwner ==
    pc = "enriched" =>
        \A i \in DataRows :
            /\ OwnerCell(i) # Empty
            /\ StudyCell(i) = Empty => OwnerCell(i) = Text(NA)

\* The owners looked up for the trimmed pieces of a cell, in order.
LookedUp(cell) ==
    LET pieces == Split(cell.s)
    IN [k \in 1..Len(pieces) |->
          IF Strip(pieces[k]) \in DOMAIN study_rqc_map
          THEN study_rqc_map[Strip(pieces[k])]
          ELSE NA]

\* A sequence without its repetitions, in order of first occurrence.
FirstOccurrences(seq) ==
    LET keep == {i \in 1..Len(seq) : \A j \in 1..(i - 1) : seq[j] # seq[i]}
    IN [k \in 1..Cardinality(keep) |->
          seq[CHOOSE i \in keep : Cardinality({j \in keep : j <= i}) = k]]

\* C5: a row with a non-empty "Study" cell gets as owner the ", "-join of
\* the owners looked up for the trimmed comma-separated pieces of the cell
\* (unknown piece: "NA"), each distinct owner once, in order of first
\* occurrence.
C5_OwnerIsJoinOfDistinctOwners ==
    pc = "enriched" =>
        \A i \in DataRows :
            (StudyCell(i).kind = "text" /\ StudyCell(i).s # <<>>) =>
                OwnerCell(i) = Text(Join(FirstOccurrences(LookedUp(StudyCell(i)))))

\* C5 witness: a row "S1, S2" where both studies map to the same owner got
\* that owner once.
C5_Witness ==
    /\ pc = "enriched"
    /\ {S1, S2} \subseteq DOMAIN study_rqc_map
    /\ study_rqc_map[S1] = Alice
    /\ study_rqc_map[S2] = Alice
    /\ \E i \in DataRows : StudyCell(i) = Text(S1S2) /\ OwnerCell(i) = Text(Alice)

\* The reference rows whose key has the string form k.
KeyRows(k) == {r \in 1..Len(df_study_alloc) : AsTypeStr(df_study_alloc[r][1]) = k}

\* The owner of a reference row: "NA" for a missing one, else its string.
NormalOwner(r) ==
    IF df_study_alloc[r][2] = Empty THEN NA ELSE df_study_alloc[r][2].s

\* C6: the map has exactly the keys of the reference table, each mapped to
\* the normalized owner of the last row with that key; no owner is empty.
C6_LastWriteWins ==
    MapBuilt =>
        /\ DOMAIN study_rqc_map =
              {AsTypeStr(df_study_alloc[r][1]) : r \in 1..Len(df_study_alloc)}
        /\ \A k \in DOMAIN study_rqc_map :
              /\ study_rqc_map[k] =
                    NormalOwner(CHOOSE r \in KeyRows(k) : \A q \in KeyRows(k) : q <= r)
              /\ study_rqc_map[k] # <<>>
              /\ study_rqc_map[k] # None

\* C6 witness: two rows with the same key, the owner of the second missing:
\* the key maps to "NA".
C6_Witness ==
    /\ pc = "mapped"
    /\ Len(df_study_alloc) = 2
    /\ df_study_alloc[1] = <<Text(S1), Text(Alice)>>
    /\ df_study_alloc[2] = <<Text(S1), Empty>>
    /\ study_rqc_map[S1] = NA

\* C7 (as claimed): every key of the map is trimmed, and a row whose "Study"
\* cell is one study that equals a reference key after trimming gets the
\* owner of such a reference row.
C7_KeysTrimmed ==
    /\ MapBuilt => \A k \in DOMAIN study_rqc_map : Strip(k) = k
    /\ pc = "enriched" =>
          \A i \in DataRows :
              LET rows == {r \in 1..Len(df_study_alloc) :
                             Strip(AsTypeStr(df_study_alloc[r][1])) = Strip(StudyCell(i).s)}
              IN (StudyCell(i).kind = "text" /\ Len(Split(StudyCell(i).s)) = 1
                     /\ rows # {})
                 => OwnerCell(i).s \in {NormalOwner(r) : r \in rows}

\* The sum of the "Unblinded" column over the owners S of the pivot table.
RECURSIVE SumUnblinded(_)
SumUnblinded(S) ==
    IF S = {} THEN 0
    ELSE LET o == CHOOSE x \in S : TRUE
         IN pivot_table.data[o].Unblinded + SumUnblinded(S \ {o})

\* C8 (as claimed): the "Unblinded" counts of the summary add up to the
\* number of records whose Content contains "Unblinded" in any case, and no
\* count is negative.
C8_UnblindedSumMatches ==
    pc = "pivot_done" =>
        /\ SumUnblinded(DOMAIN pivot_table.data) =
              Cardinality({i \in DataRows : CountUnblinded(sht_raw_data, i) = 1})
        /\ \A o \in DOMAIN pivot_table.data :
              /\ pivot_table.data[o].Unblinded \in Nat
              /\ pivot_table.data[o].DueByToday \in Nat
              /\ pivot_table.data[o].DueByFriday \in Nat

\* The rows whose owner cell is not empty.
OwnedRows == {i \in DataRows : OwnerCell(i) # Empty}

\* C9: the summary has one row per owner string of the rows that have an
\* owner, each count is the number of that owner's rows with the flag, so a
\* row without owner is in no group and in no count; with no such row the
\* summary is empty.
C9_MissingOwnerNotGrouped ==
    pc = "pivot_done" =>
        /\ DOMAIN pivot_table.data = {OwnerCell(i).s : i \in OwnedRows}
        /\ \A o \in DOMAIN pivot_table.data :
              LET mine == {i \in OwnedRows : OwnerCell(i).s = o}
              IN /\ pivot_table.data[o].Unblinded =
                      Cardinality({i \in mine : CountUnblinded(sht_raw_data, i) = 1})
                 /\ pivot_table.data[o].DueByToday =
                      Cardinality({i \in mine :
                          CountDueBy(sht_raw_data, i, today_date) = 1})
                 /\ pivot_table.data[o].DueByFriday =
                      Cardinality({i \in mine :
                          CountDueBy(sht_raw_data, i, next_sunday_date) = 1})
        /\ OwnedRows = {} => DOMAIN pivot_table.data = {}

\* C9 witness: a row without owner that mentions "Unblinded" and is due,
\* beside a row with an owner; the summary has that one owner only.
C9_Witness ==
    /\ pc = "pivot_done"
    /\ \E i \in DataRows :
          /\ OwnerCell(i) = Empty
          /\ CountUnblinded(sht_raw_data, i) = 1
          /\ CountDueBy(sht_raw_data, i, today_date) = 1
    /\ OwnedRows # {}
    /\ Cardinality(DOMAIN pivot_table.data) = 1

\* Day 7 of the proleptic calendar (0001-01-07) is a Sunday.
IsSunday(d) == d % 7 = 0

\* C10: the criteria date is the reference date plus (6 - weekday + 7) mod 7
\* days; it is a Sunday 0 to 6 days on or after the reference date, it is
\* the reference date exactly when that is a Sunday, no Sunday lies before
\* it from the reference date on, and a Wednesday gives 4 days later.
C10_NextSunday ==
    pc = "pivot_done" =>
        /\ next_sunday_date = today_date + ((6 - ((today_date - 1) % 7) + 7) % 7)
        /\ IsSunday(next_sunday_date)
        /\ next_sunday_date - today_date \in 0..6
        /\ (next_sunday_date = today_date) <=> IsSunday(today_date)
        /\ \A d \in today_date..(next_sunday_date - 1) : ~IsSunday(d)
        /\ today_date % 7 = 3 => next_sunday_date = today_date + 4

\* C10 witness: the reference date is a Wednesday, the criteria date the
\* Sunday four days later.
C10_Witness ==
    /\ pc = "pivot_done"
    /\ today_date % 7 = 3
    /\ next_sunday_date = today_date + 4
    /\ IsSunday(next_sunday_date)

\* C11 (as claimed): the summary table, empty or not, has the value columns
\* "Unblinded", "Due By Today", "Due By Friday", in that order.
C11_ColumnOrder ==
    pc = "pivot_done" =>
        pivot_table.columns = <<"Unblinded", "Due By Today", "Due By Friday">>

\* ------------------------------------------------------------------------
\* Required columns

\* The data of the source sheet has been copied into RawData.
Copied == Len(sht_raw_data.header) > 0

StudyAbsent == IndexOf(sht_raw_data.header, "Study") = 0

TaskDueDateAbsent == IndexOf(sht_raw_data.header, "Task Due Date") = 0

\* C12 (as claimed): when "Study" or "Task Due Date" is absent from the raw
\* data, the run ends with no report saved.
C12_MissingColumnNoSave ==
    (pc = "finished" /\ Copied /\ (StudyAbsent \/ TaskDueDateAbsent)) => ~saved

\* C12 (amended): an absent "Study" stops the run where it is detected:
\* no owner column, no summary, nothing saved, and the error reaches main()'s
\* outer handler.  An absent "Task Due Date" (with "Study" present) only
\* leaves the summary out: unless the macro step raised, the run goes on and
\* saves the enriched report.
C12_MissingColumnOutcome ==
    /\ (Copied /\ StudyAbsent) =>
          /\ pc \in {"copied", "finished"}
          /\ enrich_runs = 0
          /\ pivot_sheet = "none"
          /\ ~saved
          /\ pc = "finished" => raised
    /\ (Copied /\ ~StudyAbsent /\ TaskDueDateAbsent) =>
          /\ pivot_sheet = "none"
          /\ pc # "pivot_done"
          /\ (pc = "finished" /\ ~raised) => saved
          /\ raised => ~saved

\* A run ended with "Task Due Date" absent and the enriched report saved.
C12_Witness ==
    /\ pc = "finished"
    /\ Copied
    /\ ~StudyAbsent
    /\ TaskDueDateAbsent
    /\ IndexOf(sht_raw_data.header, "RQC User") # 0
    /\ saved
    /\ ~raised

\* ------------------------------------------------------------------------
\* Repeated enrichment

\* The columns of RawData headed "RQC User".
RqcUserColumns ==
    {c \in 1..Len(sht_raw_data.header) : sht_raw_data.header[c] = "RQC User"}

\* C13: once add_rqc_user_to_sheet has run, RawData never has more than one
\* "RQC User" column (exactly one when the Study column has data), and
\* another run with the same map leaves the sheet, header and owner
\* values, as the run before left it.
C13_Idempotent ==
    /\ [](enrich_runs >= 1 =>
            /\ Cardinality(RqcUserColumns) <= 1
            /\ LastRow(sht_raw_data, IndexOf(sht_raw_data.header, "Study")) >= 2
                  => Cardinality(RqcUserColumns) = 1)
    /\ [][(enrich_runs >= 1 /\ enrich_runs' > enrich_runs)
            => sht_raw_data' = sht_raw_data]_vars

\* C13 witness: the sheet came with an "RQC User" column holding a stale
\* value, add_rqc_user_to_sheet has run more than once, and the one owner
\* column holds the owner from the map.
C13_Witness ==
    /\ enrich_runs >= 2
    /\ sht_raw_data.header = <<"Study", "RQC User">>
    /\ Len(sht_raw_data.rows) >= 1
    /\ sht_raw_data.rows[1] = <<Text(S1), Text(Alice)>>

\* ------------------------------------------------------------------------
\* Workbooks and the Excel application

\* C14 (as claimed): when main() returns after Excel was started, each
\* workbook that was opened has been closed exactly once and Excel has been
\* quit at most once; nothing is closed or quit a second time.
C14_ClosedExactlyOnce ==
    (pc = "finished" /\ xl.excel_app = "app") =>
        /\ xl.source_opened => xl.source_closes = 1
        /\ xl.template_opened => xl.template_closes = 1
        /\ ~xl.source_opened => xl.source_closes = 0
        /\ ~xl.template_opened => xl.template_closes = 0
        /\ xl.quits <= 1

====
